---- MODULE Spec2Model ----
(***************************************************************************)
(* A model of the base62 codec (base62.go) and of the line-processing      *)
(* wrapper that calls it (app/app.go).                                     *)
(*                                                                         *)
(* Byte slices and Go strings are sequences of byte values 0..255.  A      *)
(* *big.Int, an int64 holding a chunk and a uint64 are all held as the     *)
(* big-endian bytes of their magnitude without leading zero bytes (<<>> is *)
(* zero), which is what big.Int.Bytes() returns; a uint64 is such a        *)
(* sequence cut to its low 8 bytes, so every width of the code is kept.    *)
(***************************************************************************)
EXTENDS Integers, Sequences, FiniteSets, TLC

(***************************************************************************)
(* Program constants                                                       *)
(***************************************************************************)
radix == 62

ChunkLen == 10

Uint64Bytes == 8

Invalid == 255

RuneError == 65533

ByteVals == 0..255

(***************************************************************************)
(* Bounds of the explored inputs                                           *)
(***************************************************************************)
MaxLen == 9

MaxZeros == 20

MaxStrLen == 11

MaxBadLen == 3

MaxLines == 2

(***************************************************************************)
(* Sequence helpers                                                        *)
(***************************************************************************)
RECURSIVE Reverse(_)
Reverse(s) ==
  IF s = <<>> THEN <<>> ELSE Append(Reverse(Tail(s)), Head(s))

Repeat(c, k) == [i \in 1..k |-> c]

RECURSIVE LeadingCount(_, _)
LeadingCount(s, c) ==
  IF s = <<>> \/ Head(s) # c THEN 0 ELSE 1 + LeadingCount(Tail(s), c)

SeqsUpTo(S, k) == UNION {[1..m -> S] : m \in 0..k}

(***************************************************************************)
(* math/big and unsigned machine arithmetic on magnitudes                  *)
(***************************************************************************)
RECURSIVE StripZeros(_)
StripZeros(b) ==
  IF b = <<>> \/ Head(b) # 0 THEN b ELSE StripZeros(Tail(b))

SetBytes(b) == StripZeros(b)

Sign(x) == IF x = <<>> THEN 0 ELSE 1

SmallBytes(c) ==
  IF c = 0 THEN <<>>
  ELSE IF c < 256 THEN <<c>>
  ELSE <<c \div 256, c % 256>>

\* x \div d and x % d for a divisor d < 2^16: schoolbook short division.
RECURSIVE ShortDiv(_, _, _, _, _)
ShortDiv(x, d, i, rem, q) ==
  IF i > Len(x) THEN [q |-> StripZeros(q), r |-> rem]
  ELSE LET cur == rem * 256 + x[i]
       IN  ShortDiv(x, d, i + 1, cur % d, Append(q, cur \div d))

DivModSmall(x, d) == ShortDiv(x, d, 1, 0, <<>>)

\* x * m + a for m, a < 2^8.
RECURSIVE MulAddLoop(_, _, _, _, _)
MulAddLoop(x, m, i, carry, acc) ==
  IF i = 0 THEN StripZeros(SmallBytes(carry) \o acc)
  ELSE LET t == x[i] * m + carry
       IN  MulAddLoop(x, m, i - 1, t \div 256, <<t % 256>> \o acc)

MulAddSmall(x, m, a) == MulAddLoop(x, m, Len(x), a, <<>>)

RECURSIVE AddLoop(_, _, _, _, _)
AddLoop(a, b, i, carry, acc) ==
  IF i >= Len(a) /\ i >= Len(b) THEN StripZeros(SmallBytes(carry) \o acc)
  ELSE LET da == IF i < Len(a) THEN a[Len(a) - i] ELSE 0
           db == IF i < Len(b) THEN b[Len(b) - i] ELSE 0
           t  == da + db + carry
       IN  AddLoop(a, b, i + 1, t \div 256, <<t % 256>> \o acc)

BigAdd(a, b) == AddLoop(a, b, 0, 0, <<>>)

RECURSIVE MulLoop(_, _, _, _)
MulLoop(a, b, j, acc) ==
  IF j > Len(b) THEN acc
  ELSE MulLoop(a, b, j + 1,
               BigAdd(IF acc = <<>> THEN <<>> ELSE Append(acc, 0),
                      MulAddSmall(a, b[j], 0)))

BigMul(a, b) == MulLoop(a, b, 1, <<>>)

BigLess(a, b) ==
  \/ Len(a) < Len(b)
  \/ /\ Len(a) = Len(b)
     /\ \E i \in 1..Len(a) :
          /\ a[i] < b[i]
          /\ \A j \in 1..(i - 1) : a[j] = b[j]

\* The low 64 bits of a magnitude: the value a uint64 keeps of it.
Wrap64(x) ==
  IF Len(x) <= Uint64Bytes THEN x
  ELSE StripZeros(SubSeq(x, Len(x) - Uint64Bytes + 1, Len(x)))

RECURSIVE Pow62(_)
Pow62(n) == IF n = 0 THEN <<1>> ELSE MulAddSmall(Pow62(n - 1), radix, 0)

bigRadix10 == Pow62(ChunkLen)

bigRadix(n) == IF n = 0 THEN <<>> ELSE IF n = ChunkLen THEN bigRadix10 ELSE Pow62(n)

\* big.Int.DivMod(x, 62^k): the quotient is reached by k short divisions by
\* 62, the remainder is rebuilt from their remainders.
RECURSIVE DivModPow62(_, _)
DivModPow62(x, k) ==
  IF k = 0 THEN [q |-> x, r |-> <<>>]
  ELSE LET d    == DivModSmall(x, radix)
           rest == DivModPow62(d.q, k - 1)
       IN  [q |-> rest.q, r |-> MulAddSmall(rest.r, radix, d.r)]

DivMod(x) == DivModPow62(x, ChunkLen)

(***************************************************************************)
(* The encoding table                                                      *)
(***************************************************************************)
\* "0123456789abcdefghijklmnopqrstuvwxyzABCDEFGHIJKLMNOPQRSTUVWXYZ"
StdAlphabet ==
  [i \in 1..62 |-> IF i <= 10 THEN 47 + i ELSE IF i <= 36 THEN 86 + i ELSE 28 + i]

New(alphabet) ==
  LET arr == [i \in 1..62 |-> IF i <= Len(alphabet) THEN alphabet[i] ELSE 0]
      idx(c) == {i \in 1..62 : arr[i] = c}
      last(S) == CHOOSE i \in S : \A j \in S : j <= i
  IN  [alphabet     |-> arr,
       decodeMap    |-> [c \in ByteVals |->
                           IF idx(c) = {} THEN Invalid ELSE last(idx(c)) - 1],
       alphabetIdx0 |-> alphabet[1]]

StdEncoding == New(StdAlphabet)

InAlphabet(e, c) == \E i \in 1..62 : e.alphabet[i] = c

(***************************************************************************)
(* EncodeToString                                                          *)
(***************************************************************************)
\* for m > 0 { append(alphabet[m%62]); m /= 62 }
RECURSIVE MinimalDigits(_, _)
MinimalDigits(e, m) ==
  IF m = <<>> THEN <<>>
  ELSE LET d == DivModSmall(m, radix)
       IN  <<e.alphabet[d.r + 1]>> \o MinimalDigits(e, d.q)

\* for i := 0; i < 10; i++ { append(alphabet[m%62]); m /= 62 }
RECURSIVE PaddedDigits(_, _, _)
PaddedDigits(e, m, i) ==
  IF i >= ChunkLen THEN <<>>
  ELSE LET d == DivModSmall(m, radix)
       IN  <<e.alphabet[d.r + 1]>> \o PaddedDigits(e, d.q, i + 1)

\* The last chunk padded to ten digits like the others.
FinalChunkMut(e, m) == PaddedDigits(e, m, 0)

FinalChunk(e, m) == MinimalDigits(e, m)

\* A chunk that is not the last emitted without padding.
InnerChunkMut(e, m) == MinimalDigits(e, m)

InnerChunk(e, m) == PaddedDigits(e, m, 0)

RECURSIVE EncodeLoop(_, _, _)
EncodeLoop(e, x, answer) ==
  IF Sign(x) <= 0 THEN answer
  ELSE LET dm == DivMod(x)
       IN  IF Sign(dm.q) = 0
           THEN EncodeLoop(e, dm.q, answer \o FinalChunk(e, dm.r))
           ELSE EncodeLoop(e, dm.q, answer \o InnerChunk(e, dm.r))

\* One zero symbol per two leading zero bytes.
LeadingZeroSymbolsMut(e, b) ==
  Repeat(e.alphabetIdx0, LeadingCount(b, 0) \div 2)

LeadingZeroSymbols(e, b) == Repeat(e.alphabetIdx0, LeadingCount(b, 0))

EncodeToString(e, b) ==
  Reverse(EncodeLoop(e, SetBytes(b), <<>>) \o LeadingZeroSymbols(e, b))

(***************************************************************************)
(* DecodeString                                                            *)
(***************************************************************************)
Cont(b) == b \in 128..191

\* One step of "for _, v := range t[:n]" over a Go string: the rune at the
\* head of s and the number of bytes it takes (utf8 decoding; a byte that
\* starts no valid encoding yields RuneError and takes one byte).
DecodeRune(s) ==
  LET b0 == s[1]
      at(i) == IF i <= Len(s) THEN s[i] ELSE -1
      lo3 == IF b0 = 224 THEN 160 ELSE 128
      hi3 == IF b0 = 237 THEN 159 ELSE 191
      lo4 == IF b0 = 240 THEN 144 ELSE 128
      hi4 == IF b0 = 244 THEN 143 ELSE 191
  IN  IF b0 < 128 THEN [r |-> b0, size |-> 1]
      ELSE IF b0 \in 194..223 /\ Cont(at(2))
        THEN [r |-> (b0 - 192) * 64 + (at(2) - 128), size |-> 2]
      ELSE IF b0 \in 224..239 /\ at(2) \in lo3..hi3 /\ Cont(at(3))
        THEN [r |-> (b0 - 224) * 4096 + (at(2) - 128) * 64 + (at(3) - 128),
              size |-> 3]
      ELSE IF b0 \in 240..244 /\ at(2) \in lo4..hi4 /\ Cont(at(3)) /\ Cont(at(4))
        THEN [r |-> (b0 - 240) * 262144 + (at(2) - 128) * 4096
                     + (at(3) - 128) * 64 + (at(4) - 128),
              size |-> 4]
      ELSE [r |-> RuneError, size |-> 1]

\* The inner loop over one chunk.  e.decodeMap is a [256]byte indexed by the
\* rune: an index of 256 or more is a run-time panic (index out of range).
RECURSIVE ChunkLoop(_, _, _)
ChunkLoop(e, t, total) ==
  IF t = <<>> THEN [st |-> "ok", total |-> total]
  ELSE LET d == DecodeRune(t)
       IN  IF d.r > 255 THEN [st |-> "panic", total |-> <<>>]
           ELSE LET ch == e.decodeMap[d.r]
                IN  IF ch = Invalid THEN [st |-> "invalid", total |-> <<>>]
                    ELSE ChunkLoop(e, SubSeq(t, d.size + 1, Len(t)),
                                   Wrap64(MulAddSmall(total, 62, ch)))

RECURSIVE DecodeLoop(_, _, _)
DecodeLoop(e, t, answer) ==
  IF Len(t) = 0 THEN [st |-> "ok", answer |-> answer]
  ELSE LET n == IF Len(t) > 10 THEN 10 ELSE Len(t)
           c == ChunkLoop(e, SubSeq(t, 1, n), <<>>)
       IN  IF c.st # "ok" THEN [st |-> c.st, answer |-> <<>>]
           ELSE DecodeLoop(e, SubSeq(t, n + 1, Len(t)),
                           BigAdd(BigMul(answer, bigRadix(n)), c.total))

\* The loop over b left after its first iteration.
NumZerosMut(e, b) == IF LeadingCount(b, e.alphabetIdx0) > 0 THEN 1 ELSE 0

NumZeros(e, b) == LeadingCount(b, e.alphabetIdx0)

\* The result: panic is TRUE when the call ends in a run-time panic and
\* returns nothing; otherwise val is the returned slice.
DecodeString(e, b) ==
  LET r == DecodeLoop(e, b, <<>>)
  IN  IF r.st = "panic" THEN [panic |-> TRUE, val |-> <<>>]
      ELSE IF r.st = "invalid" THEN [panic |-> FALSE, val |-> <<>>]
      ELSE [panic |-> FALSE, val |-> Repeat(0, NumZeros(e, b)) \o r.answer]

(***************************************************************************)
(* EncodeUint64 / DecodeToUint64                                           *)
(***************************************************************************)
\* for n > 0 { n, mod = n/radix, n%radix; i--; answer[i] = alphabet[mod] }
RECURSIVE Uint64Digits(_, _, _)
Uint64Digits(e, n, answer) ==
  IF n = <<>> THEN answer
  ELSE LET d == DivModSmall(n, radix)
       IN  Uint64Digits(e, d.q, <<e.alphabet[d.r + 1]>> \o answer)

\* Without the n == 0 case.
EncodeUint64Mut(e, n) == Uint64Digits(e, n, <<>>)

EncodeUint64(e, n) ==
  IF n = <<>> THEN <<e.alphabetIdx0>> ELSE Uint64Digits(e, n, <<>>)

\* "if i = e.decodeMap[c]; i < 0": i is a byte.
RECURSIVE DecodeUintLoop(_, _, _)
DecodeUintLoop(e, s, n) ==
  IF s = <<>> THEN [val |-> n, err |-> "nil"]
  ELSE LET i == e.decodeMap[Head(s)]
           m == Wrap64(MulAddSmall(n, radix, i))
       IN  IF i < 0 THEN [val |-> <<>>, err |-> "invalid character"]
           ELSE IF BigLess(m, n) THEN [val |-> <<>>, err |-> "overflow"]
           ELSE DecodeUintLoop(e, Tail(s), m)

\* The same loop with the wraparound test written "m <= n".
RECURSIVE DecodeUintLoopMut(_, _, _)
DecodeUintLoopMut(e, s, n) ==
  IF s = <<>> THEN [val |-> n, err |-> "nil"]
  ELSE LET i == e.decodeMap[Head(s)]
           m == Wrap64(MulAddSmall(n, radix, i))
       IN  IF i < 0 THEN [val |-> <<>>, err |-> "invalid character"]
           ELSE IF ~BigLess(n, m) THEN [val |-> <<>>, err |-> "overflow"]
           ELSE DecodeUintLoopMut(e, Tail(s), m)

DecodeToUint64Mut(e, s) == DecodeUintLoopMut(e, s, <<>>)

DecodeToUint64(e, s) == DecodeUintLoop(e, s, <<>>)

\* base62_test.go: the big-endian bytes of n without leading zero bytes, and
\* the single byte 0x00 for n = 0.
marshallUint64(n) == IF n = <<>> THEN <<0>> ELSE n

(***************************************************************************)
(* State                                                                   *)
(***************************************************************************)
VARIABLES pc, src, str, dst, n, ustr, uret, ref,
          decode, failing, input, done, calls, outStream, errStream, status

appVars ==
  <<decode, failing, input, done, calls, outStream, errStream, status>>

vars == <<pc, src, str, dst, n, ustr, uret, ref, appVars>>

NoRet == [panic |-> FALSE, val |-> <<>>]

NoURet == [val |-> <<>>, err |-> "nil"]

ByteSample == {0, 4, 255}

ByteInputs ==
  SeqsUpTo(ByteSample, MaxLen) \cup {Repeat(0, k) : k \in 0..MaxZeros}

\* uint64 values: every value below 2^16, and the 8-byte values over
\* ByteSample (0 and 2^64-1 among them).
UintInputs ==
  {StripZeros(b) : b \in [1..Uint64Bytes -> ByteSample]}
    \cup {StripZeros(b) : b \in [1..2 -> ByteVals]}

\* '0', 'l', 'Z': the digits 0, 21 and 61; '?' and 0xff are not in the alphabet.
DigitSample == {48, 108, 90}

BadSample == {48, 97, 63, 255}

\* base62_test.go, TestDecodeUint64Overflow: "lYGhA16ahyf" (2^64-1),
\* "lYGhA16ahyg" and "aaaaaaaaaaaaaa".
TestStrings ==
  { <<108, 89, 71, 104, 65, 49, 54, 97, 104, 121, 102>>,
    <<108, 89, 71, 104, 65, 49, 54, 97, 104, 121, 103>>,
    Repeat(97, 14) }

UintStrings ==
  SeqsUpTo(DigitSample, MaxStrLen) \cup SeqsUpTo(BadSample, MaxBadLen)
    \cup TestStrings

\* '1', 'b', '?', 0xc3 0xa9 (U+00E9 in UTF-8), 0xff.
RawSample == {49, 98, 63, 195, 169, 255}

RawStrings ==
  {p \o s : p \in {<<>>, Repeat(49, 10)}, s \in SeqsUpTo(RawSample, MaxBadLen)}

AppIdle ==
  /\ decode = FALSE
  /\ failing = {}
  /\ input = <<>>
  /\ done = <<>>
  /\ calls = <<>>
  /\ outStream = <<>>
  /\ errStream = <<>>
  /\ status = "nil"

UintIdle == n = <<>> /\ ustr = <<>> /\ uret = NoURet /\ ref = <<>>

BytesIdle == src = <<>> /\ str = <<>> /\ dst = NoRet

InitBytes ==
  /\ pc = "start"
  /\ src \in ByteInputs
  /\ str = <<>>
  /\ dst = NoRet
  /\ UintIdle
  /\ AppIdle

InitUint ==
  /\ pc = "start"
  /\ n \in UintInputs
  /\ ustr = <<>>
  /\ uret = NoURet
  /\ ref = <<>>
  /\ BytesIdle
  /\ AppIdle

InitUintDecode ==
  /\ pc = "start"
  /\ ustr \in UintStrings
  /\ n = <<>>
  /\ uret = NoURet
  /\ ref = <<>>
  /\ BytesIdle
  /\ AppIdle

InitRaw ==
  /\ pc = "start"
  /\ str \in RawStrings
  /\ src = <<>>
  /\ dst = NoRet
  /\ UintIdle
  /\ AppIdle

EncodeToStringCall ==
  /\ pc = "start"
  /\ pc' = "encoded"
  /\ str' = EncodeToString(StdEncoding, src)
  /\ UNCHANGED <<src, dst, n, ustr, uret, ref, appVars>>

DecodeStringCall ==
  /\ pc = "encoded"
  /\ pc' = "decoded"
  /\ dst' = DecodeString(StdEncoding, str)
  /\ UNCHANGED <<src, str, n, ustr, uret, ref, appVars>>

NextBytes == EncodeToStringCall \/ DecodeStringCall

SpecBytes == InitBytes /\ [][NextBytes]_vars

EncodeUint64Call ==
  /\ pc = "start"
  /\ pc' = "uencoded"
  /\ ustr' = EncodeUint64(StdEncoding, n)
  /\ UNCHANGED <<src, str, dst, n, uret, ref, appVars>>

DecodeToUint64Call ==
  /\ pc = "uencoded"
  /\ pc' = "udecoded"
  /\ uret' = DecodeToUint64(StdEncoding, ustr)
  /\ UNCHANGED <<src, str, dst, n, ustr, ref, appVars>>

\* TestEncodeUint64: EncodeToString(marshallUint64(n)).
EncodeMarshalledCall ==
  /\ pc = "uencoded"
  /\ pc' = "umarshalled"
  /\ ref' = EncodeToString(StdEncoding, marshallUint64(n))
  /\ UNCHANGED <<src, str, dst, n, ustr, uret, appVars>>

NextUint == EncodeUint64Call \/ DecodeToUint64Call \/ EncodeMarshalledCall

SpecUint == InitUint /\ [][NextUint]_vars

DecodeToUint64Raw ==
  /\ pc = "start"
  /\ pc' = "udecoded"
  /\ uret' = DecodeToUint64(StdEncoding, ustr)
  /\ UNCHANGED <<src, str, dst, n, ustr, ref, appVars>>

NextUintDecode == DecodeToUint64Raw

SpecUintDecode == InitUintDecode /\ [][NextUintDecode]_vars

DecodeStringRaw ==
  /\ pc = "start"
  /\ pc' = "decoded"
  /\ dst' = DecodeString(StdEncoding, str)
  /\ UNCHANGED <<src, str, n, ustr, uret, ref, appVars>>

NextRaw == DecodeStringRaw

SpecRaw == InitRaw /\ [][NextRaw]_vars

(***************************************************************************)
(* The line-processing wrapper (app/app.go)                                *)
(***************************************************************************)
\* unicode.IsSpace on the ASCII range: '\t', '\n', '\v', '\f', '\r', ' '.
IsSpace(c) == c \in {9, 10, 11, 12, 13, 32}

\* s[a:b] of Go, with 0-based a and b.
Slice(s, a, b) == SubSeq(s, a + 1, b)

\* bytes.IndexFunc over ASCII bytes: the 0-based index of the first byte with
\* IsSpace(byte) = want, or -1.
IndexFunc(s, want) ==
  LET hits == {k \in 1..Len(s) : IsSpace(s[k]) = want}
  IN  IF hits = {} THEN -1
      ELSE (CHOOSE k \in hits : \A h \in hits : k <= h) - 1

\* The callbacks runInternal hands to processLine.  Encoding never fails.
\* In decode mode app.go expects DecodeString to return ([]byte, error); which
\* tokens that form rejects is not decided by base62.go, so the rejected
\* tokens are the set failing, chosen freely at the start of a run.
Callback(dec, bad, tok) ==
  IF dec
  THEN IF tok \in bad THEN [val |-> <<>>, err |-> "decode error"]
       ELSE [val |-> DecodeString(StdEncoding, tok).val, err |-> "nil"]
  ELSE [val |-> EncodeToString(StdEncoding, tok), err |-> "nil"]

\* The same loop without "if err != nil { return nil, err }".
RECURSIVE ProcessLoopMut(_, _, _, _, _, _, _)
ProcessLoopMut(line, dec, bad, i, j, res, seen) ==
  IF ~(j < Len(line)) THEN [res |-> res, err |-> "nil", calls |-> seen]
  ELSE LET j0    == IndexFunc(Slice(line, i, Len(line)), TRUE)
           j1    == IF j0 >= 0 THEN j0 + i ELSE Len(line)
           tok   == Slice(line, i, j1)
           got   == Callback(dec, bad, tok)
           seen1 == Append(seen, tok)
           res1  == res \o got.val
           i0    == IndexFunc(Slice(line, j1, Len(line)), FALSE)
           i1    == IF i0 >= 0 THEN i0 + j1 ELSE Len(line)
           res2  == res1 \o Slice(line, j1, i1)
       IN  IF j1 = Len(line) THEN [res |-> res1, err |-> "nil", calls |-> seen1]
           ELSE IF i1 = Len(line)
             THEN [res |-> res2, err |-> "nil", calls |-> seen1]
           ELSE ProcessLoopMut(line, dec, bad, i1, j1, res2, seen1)

\* The loop of processLine; calls records the tokens handed to the callback.
RECURSIVE ProcessLoop(_, _, _, _, _, _, _)
ProcessLoop(line, dec, bad, i, j, res, seen) ==
  IF ~(j < Len(line)) THEN [res |-> res, err |-> "nil", calls |-> seen]
  ELSE LET j0    == IndexFunc(Slice(line, i, Len(line)), TRUE)
           j1    == IF j0 >= 0 THEN j0 + i ELSE Len(line)
           tok   == Slice(line, i, j1)
           got   == Callback(dec, bad, tok)
           seen1 == Append(seen, tok)
           res1  == res \o got.val
           i0    == IndexFunc(Slice(line, j1, Len(line)), FALSE)
           i1    == IF i0 >= 0 THEN i0 + j1 ELSE Len(line)
           res2  == res1 \o Slice(line, j1, i1)
       IN  IF got.err # "nil" THEN [res |-> <<>>, err |-> got.err, calls |-> seen1]
           ELSE IF j1 = Len(line)
             THEN [res |-> res1, err |-> "nil", calls |-> seen1]
           ELSE IF i1 = Len(line)
             THEN [res |-> res2, err |-> "nil", calls |-> seen1]
           ELSE ProcessLoop(line, dec, bad, i1, j1, res2, seen1)

processLineMut(line, dec, bad) == ProcessLoopMut(line, dec, bad, 0, 0, <<>>, <<>>)

processLine(line, dec, bad) == ProcessLoop(line, dec, bad, 0, 0, <<>>, <<>>)

\* The lines the scanner may yield: "", "b", "?", "b ?", "? b", "b  b ",
\* " b", "b ? b".
LineSample ==
  { <<>>, <<98>>, <<63>>, <<98, 32, 63>>, <<63, 32, 98>>,
    <<98, 32, 32, 98, 32>>, <<32, 98>>, <<98, 32, 63, 32, 98>> }

TokenSample == {<<98>>, <<63>>}

InitApp ==
  /\ pc = "run"
  /\ decode \in BOOLEAN
  /\ failing \in SUBSET TokenSample
  /\ input \in SeqsUpTo(LineSample, MaxLines)
  /\ done = <<>>
  /\ calls = <<>>
  /\ outStream = <<>>
  /\ errStream = <<>>
  /\ status = "nil"
  /\ BytesIdle
  /\ UintIdle

\* One iteration of "for scanner.Scan()": outStream is the sequence of Write
\* calls, errStream the sequence of printed lines.
RunLine ==
  /\ pc = "run"
  /\ input # <<>>
  /\ LET r == processLine(Head(input), decode, failing)
     IN  /\ calls' = Append(calls, r.calls)
         /\ IF r.err # "nil"
            THEN /\ errStream' = Append(errStream, r.err)
                 /\ status' = r.err
                 /\ UNCHANGED outStream
            ELSE /\ outStream' = outStream \o <<r.res, <<10>>>>
                 /\ UNCHANGED <<errStream, status>>
  /\ input' = Tail(input)
  /\ done' = Append(done, Head(input))
  /\ UNCHANGED <<pc, decode, failing, src, str, dst, n, ustr, uret, ref>>

\* scanner.Scan() is false: return status.
RunReturn ==
  /\ pc = "run"
  /\ input = <<>>
  /\ pc' = "returned"
  /\ UNCHANGED <<src, str, dst, n, ustr, uret, ref, appVars>>

NextApp == RunLine \/ RunReturn

SpecApp == InitApp /\ [][NextApp]_vars

(***************************************************************************)
(* Properties of the arbitrary-precision codec (SpecBytes, SpecRaw)        *)
(***************************************************************************)
Zero == StdEncoding.alphabetIdx0

HasInvalid(s) == \E i \in 1..Len(s) : ~InAlphabet(StdEncoding, s[i])

\* C1: decoding the encoding of any byte sequence returns that byte sequence
\* (empty, all-zero and zero-prefixed sequences included), without a panic.
C1_RoundTrip ==
  pc = "decoded" => dst = [panic |-> FALSE, val |-> src]

\* C1 witness: a zero-prefixed input whose encoding spans more than one chunk
\* has been encoded and decoded back.
C1_Witness ==
  /\ pc = "decoded"
  /\ Len(src) = MaxLen
  /\ src[1] = 0
  /\ src[2] = 255
  /\ Len(str) > ChunkLen + 1
  /\ dst.val = src

\* C6: an input with exactly k leading 0x00 bytes encodes to a string with
\* exactly k leading zero symbols, and decoding that string returns a byte
\* sequence with exactly k leading 0x00 bytes.
C6_LeadingZeros ==
  /\ pc \in {"encoded", "decoded"} =>
       LeadingCount(str, Zero) = LeadingCount(src, 0)
  /\ pc = "decoded" =>
       /\ ~dst.panic
       /\ LeadingCount(dst.val, 0) = LeadingCount(src, 0)

\* C6 witness: two leading zero bytes before a non-zero magnitude, decoded.
C6_Witness ==
  /\ pc = "decoded"
  /\ LeadingCount(src, 0) = 2
  /\ Len(src) > 4
  /\ LeadingCount(str, Zero) = 2
  /\ LeadingCount(dst.val, 0) = 2

\* C8 as stated: twenty 0x00 bytes encode to the ten characters "0000000000".
C8_TwentyZeroBytesGiveTen ==
  (pc = "encoded" /\ src = Repeat(0, 20)) => str = Repeat(48, 10)

\* C8 as amended: ten 0x00 bytes (the twenty hex digits of the test table)
\* encode to the ten characters "0000000000", and twenty 0x00 bytes to twenty
\* zero symbols.
C8_TenZeroBytesGiveTen ==
  /\ (pc = "encoded" /\ src = Repeat(0, 10)) => str = Repeat(48, 10)
  /\ (pc = "encoded" /\ src = Repeat(0, 20)) => str = Repeat(48, 20)

\* C8 witness: the ten zero bytes have been encoded.
C8_Witness ==
  pc = "encoded" /\ src = Repeat(0, 10) /\ Len(str) = 10

\* The chunk-size-1 conversion: one zero symbol per leading 0x00 byte, then
\* the minimal most-significant-first base-62 numeral of the value.
ReferenceEncode(b) ==
  Repeat(Zero, LeadingCount(b, 0))
    \o Reverse(MinimalDigits(StdEncoding, StripZeros(b)))

\* C9: the chunked EncodeToString returns the same string as the
\* chunk-size-1 reference conversion.
C9_ChunkedEqualsReference ==
  pc \in {"encoded", "decoded"} => str = ReferenceEncode(src)

\* C9 witness: an encoding of more than one chunk whose low chunk needed
\* padding (its most significant digit is the zero symbol).
C9_Witness ==
  /\ pc = "encoded"
  /\ Len(str) > ChunkLen
  /\ str[Len(str) - ChunkLen + 1] = Zero
  /\ str[1] # Zero

\* C5: DecodeString of any string holding a byte outside the alphabet ends
\* normally and returns the empty byte sequence.
C5_InvalidGivesEmpty ==
  (pc = "decoded" /\ HasInvalid(str)) => dst = [panic |-> FALSE, val |-> <<>>]

(***************************************************************************)
(* Properties of the fixed-width codec (SpecUint, SpecUintDecode)          *)
(***************************************************************************)
MaxUint64 == Repeat(255, Uint64Bytes)

\* The base-62 value of a string over the alphabet, unbounded.
RECURSIVE StrValue(_, _)
StrValue(s, acc) ==
  IF s = <<>> THEN acc
  ELSE StrValue(Tail(s),
                MulAddSmall(acc, radix, StdEncoding.decodeMap[Head(s)]))

\* C2: DecodeToUint64(EncodeUint64(n)) returns n and a nil error for every
\* uint64 n, 2^64-1 included.
C2_UintRoundTrip ==
  pc = "udecoded" => uret = [val |-> n, err |-> "nil"]

\* C2 witness: 2^64-1 has been encoded to its 11 digits and decoded back.
C2_Witness ==
  pc = "udecoded" /\ n = MaxUint64 /\ Len(ustr) = 11 /\ uret.val = MaxUint64

\* C7: EncodeUint64(n) equals EncodeToString of n's marshalled bytes.
C7_UintEqualsBytes ==
  pc = "umarshalled" => ustr = ref

\* C7 witness: n = 0, where both give the single zero symbol.
C7_Witness ==
  pc = "umarshalled" /\ n = <<>> /\ ustr = <<Zero>> /\ ref = <<Zero>>

\* C3: DecodeToUint64 of a string holding a byte outside the alphabet returns
\* an invalid-character error.
C3_InvalidCharacterRejected ==
  (pc = "udecoded" /\ HasInvalid(ustr)) => uret.err = "invalid character"

\* C4: DecodeToUint64 of a string over the alphabet whose base-62 value
\* exceeds 2^64-1 returns an overflow error.
C4_OverflowDetected ==
  (/\ pc = "udecoded"
   /\ ~HasInvalid(ustr)
   /\ BigLess(MaxUint64, StrValue(ustr, <<>>))) => uret.err = "overflow"

(***************************************************************************)
(* Properties of the wrapper (SpecApp)                                     *)
(***************************************************************************)
\* The tokens of a line: the runs between runs of white space, with an empty
\* first token when the line starts with white space.
RECURSIVE Tokens(_)
Tokens(line) ==
  IF line = <<>> THEN <<>>
  ELSE LET sp   == {k \in 1..Len(line) : IsSpace(line[k])}
           j    == IF sp = {} THEN Len(line) + 1
                   ELSE CHOOSE k \in sp : \A h \in sp : k <= h
           ns   == {k \in j..Len(line) : ~IsSpace(line[k])}
           i    == IF ns = {} THEN Len(line) + 1
                   ELSE CHOOSE k \in ns : \A h \in ns : k <= h
       IN  <<SubSeq(line, 1, j - 1)>> \o Tokens(SubSeq(line, i, Len(line)))

Fails(tok) == decode /\ tok \in failing

FirstFailure(toks) ==
  LET bad == {k \in 1..Len(toks) : Fails(toks[k])}
  IN  IF bad = {} THEN 0 ELSE CHOOSE k \in bad : \A h \in bad : k <= h

FailedLines == {k \in 1..Len(done) : FirstFailure(Tokens(done[k])) # 0}

\* C10 as stated: a failing token halts nothing; every token of every line
\* read is passed to the codec and every line read gets its output line.
C10_NothingHalted ==
  /\ \A k \in 1..Len(done) : calls[k] = Tokens(done[k])
  /\ Len(outStream) = 2 * Len(done)

\* C10 as amended: a failing token ends its own line (the later tokens of that
\* line are not passed to the codec, nothing is written for that line, the
\* error is printed and kept as the status); every other line read, also
\* after a failure, has all its tokens passed to the codec and gets its
\* result and a newline written.
C10_FailureEndsItsLineOnly ==
  /\ Len(calls) = Len(done)
  /\ \A k \in 1..Len(done) :
       LET toks == Tokens(done[k])
           f    == FirstFailure(toks)
       IN  calls[k] = IF f = 0 THEN toks ELSE SubSeq(toks, 1, f)
  /\ Len(outStream) = 2 * (Len(done) - Cardinality(FailedLines))
  /\ \A k \in 1..Len(outStream) : k % 2 = 0 => outStream[k] = <<10>>
  /\ Len(errStream) = Cardinality(FailedLines)
  /\ (status # "nil") <=> (FailedLines # {})

\* C10 witness: in decode mode, with "?" rejected, the line "b ? b" failed on
\* its second token, and the next line "b  b " was processed in full and
\* written.
C10_Witness ==
  /\ pc = "returned"
  /\ decode
  /\ failing = {<<63>>}
  /\ done = << <<98, 32, 63, 32, 98>>, <<98, 32, 32, 98, 32>> >>
  /\ calls = << << <<98>>, <<63>> >>, << <<98>>, <<98>> >> >>
  /\ Len(outStream) = 2
  /\ Len(errStream) = 1

====
